---- MODULE Spec2Model ----
(***************************************************************************)
(* Long Holiday Planner (src/sample.py, src/holiday_planner.py).           *)
(*                                                                         *)
(* The model follows sample.py; holiday_planner.py is the same code        *)
(* without the include_sundays flag (include_sundays = FALSE here).        *)
(*                                                                         *)
(* A date is its proleptic Gregorian ordinal (datetime.date.toordinal()),  *)
(* so that +/- one day is +/- 1 and weekday() is (ordinal + 6) % 7.        *)
(* Python sets are objects: the model keeps a heap of the three set        *)
(* objects of a run (the caller's holiday set, the off-day set built by    *)
(* compute_off_days, the per-candidate copy new_off) so that copying and   *)
(* mutating a set are different things.                                    *)
(***************************************************************************)
EXTENDS Integers, Sequences, FiniteSets, TLC

VARIABLES
    year,               \* args.year
    working_days,       \* the parsed working-day indices
    threshold,          \* args.threshold
    include_sundays,    \* args.include_sundays
    heap,               \* set object -> its contents
    off_ref,            \* the object the name off_days is bound to
    new_ref,            \* the object the name new_off is bound to
    i,                  \* position of the scan loop in dates (1-based)
    cand,               \* candidate of the last get_continuous_block call
    block,              \* result of the last get_continuous_block call
    suggestions,        \* the list find_leave_suggestions builds
    total_working_days, \* main: sum(1 for d in dates if weekday in W)
    pc                  \* position of the run

vars == <<year, working_days, threshold, include_sundays, heap, off_ref,
          new_ref, i, cand, block, suggestions, total_working_days, pc>>

(***************************************************************************)
(* Bounds of the model.                                                    *)
(***************************************************************************)
MaxThreshold == 4       \* thresholds range over -NegThresholds..MaxThreshold
NegThresholds == 1
MaxHolidays == 2        \* holiday sets have at most this many dates
BlockWindow == 6        \* width of the date window of the resolver's harness

Years == {2023, 2024}   \* a common year and a leap year

Thresholds == (0 - NegThresholds)..MaxThreshold

WorkingDaySets == { {}, 0..4, 0..5, 0..6 }

(***************************************************************************)
(* datetime.date                                                           *)
(***************************************************************************)
IsLeap(y) == (y % 4 = 0) /\ ((y % 100 # 0) \/ (y % 400 = 0))

\* number of days before January 1st of year y
DaysBeforeYear(y) ==
    LET p == y - 1 IN p * 365 + (p \div 4) - (p \div 100) + (p \div 400)

\* number of days of year y before the first day of month m
DaysBeforeMonth(y, m) ==
    <<0, 31, 59, 90, 120, 151, 181, 212, 243, 273, 304, 334>>[m]
        + (IF m > 2 /\ IsLeap(y) THEN 1 ELSE 0)

\* datetime.date(y, m, d), as its ordinal
Date(y, m, d) == DaysBeforeYear(y) + DaysBeforeMonth(y, m) + d

\* date.weekday(): 0 = Monday .. 6 = Sunday
weekday(d) == (d + 6) % 7

(***************************************************************************)
(* generate_year_dates                                                     *)
(***************************************************************************)
\* the number of dates the loop of generate_year_dates appends
YearLen(y) == Date(y, 12, 31) - Date(y, 1, 1) + 1

\* the k-th date it appends: start + (k - 1) days
YearDate(y, k) == Date(y, 1, 1) + (k - 1)

generate_year_dates(y) == [k \in 1..YearLen(y) |-> YearDate(y, k)]

SeqRange(s) == {s[k] : k \in 1..Len(s)}

(***************************************************************************)
(* compute_off_days                                                        *)
(***************************************************************************)
\* the working days, not the others, are added
compute_off_days_inverted(y, holidays, wd, sundays) ==
    LET dates == SeqRange(generate_year_dates(y))
    IN  holidays \cup {d \in dates : weekday(d) \in wd}

\* the holidays are not copied in
compute_off_days_noholidays(y, holidays, wd, sundays) ==
    LET dates == SeqRange(generate_year_dates(y))
        withSundays == IF sundays THEN {d \in dates : weekday(d) = 6} ELSE {}
    IN  withSundays \cup {d \in dates : weekday(d) \notin wd}

compute_off_days(y, holidays, wd, sundays) ==
    LET dates == SeqRange(generate_year_dates(y))
        withSundays == IF sundays
                       THEN holidays \cup {d \in dates : weekday(d) = 6}
                       ELSE holidays
    IN  withSundays \cup {d \in dates : weekday(d) \notin wd}

\* set(x): the object the copy lives in (a fresh one, never x itself)
SetCopyAliased(src, fresh) == src
SetCopy(src, fresh) == fresh

(***************************************************************************)
(* get_continuous_block                                                    *)
(***************************************************************************)
RECURSIVE ExpandBackwards(_, _, _)
ExpandBackwards(prev, start, off_set) ==
    IF prev \in off_set THEN ExpandBackwards(prev - 1, prev, off_set) ELSE start

RECURSIVE ExpandForwards(_, _, _)
ExpandForwards(nxt, end, off_set) ==
    IF nxt \in off_set THEN ExpandForwards(nxt + 1, nxt, off_set) ELSE end

\* the backward walk steps over a single missing day
RECURSIVE ExpandBackwardsGap(_, _, _)
ExpandBackwardsGap(prev, start, off_set) ==
    IF prev \in off_set THEN ExpandBackwardsGap(prev - 1, prev, off_set)
    ELSE IF prev - 1 \in off_set THEN ExpandBackwardsGap(prev - 2, prev - 1, off_set)
    ELSE start

get_continuous_block_gap(candidate, off_set) ==
    LET start == ExpandBackwardsGap(candidate - 1, candidate, off_set)
        end == ExpandForwards(candidate + 1, candidate, off_set)
    IN  <<start, end, (end - start) + 1>>

\* the forward expansion is missing
get_continuous_block_noforward(candidate, off_set) ==
    LET start == ExpandBackwards(candidate - 1, candidate, off_set)
        end == candidate
    IN  <<start, end, (end - start) + 1>>

\* the length misses the + 1
get_continuous_block_nolen(candidate, off_set) ==
    LET start == ExpandBackwards(candidate - 1, candidate, off_set)
        end == ExpandForwards(candidate + 1, candidate, off_set)
    IN  <<start, end, end - start>>

get_continuous_block(candidate, off_set) ==
    LET start == ExpandBackwards(candidate - 1, candidate, off_set)
        end == ExpandForwards(candidate + 1, candidate, off_set)
    IN  <<start, end, (end - start) + 1>>

(***************************************************************************)
(* find_leave_suggestions: the loop body, for one date d                   *)
(***************************************************************************)
\* line 222
IsCandidateAnyDay(d, off_days, wd) == weekday(d) \in wd
IsCandidate(d, off_days, wd) == weekday(d) \in wd /\ d \notin off_days

\* line 224
TouchesOffDayBoth(d, off_days) == (d - 1 \in off_days) /\ (d + 1 \in off_days)
TouchesOffDay(d, off_days) == (d - 1 \in off_days) \/ (d + 1 \in off_days)

\* line 229
QualifiesExactly(block_length, t) == block_length = t
Qualifies(block_length, t) == block_length >= t

Record(d, b) ==
    [leave_day |-> d, block_start |-> b[1], block_end |-> b[2], block_length |-> b[3]]

\* what one iteration appends: <<>> or one record
Suggest(d, off_days, wd, t) ==
    IF IsCandidate(d, off_days, wd) /\ TouchesOffDay(d, off_days)
    THEN LET b == get_continuous_block(d, off_days \cup {d})
         IN  IF Qualifies(b[3], t) THEN <<Record(d, b)>> ELSE <<>>
    ELSE <<>>

\* the records the iterations lo..hi of the loop append, in loop order (the
\* range is split in halves only to keep the evaluation shallow)
RECURSIVE ScanRange(_, _, _, _, _, _)
ScanRange(lo, hi, dates, off_days, wd, t) ==
    IF lo > hi THEN <<>>
    ELSE IF lo = hi THEN Suggest(dates[lo], off_days, wd, t)
    ELSE LET mid == (lo + hi) \div 2
         IN  ScanRange(lo, mid, dates, off_days, wd, t)
                 \o ScanRange(mid + 1, hi, dates, off_days, wd, t)

find_leave_suggestions(y, off_days, wd, t) ==
    LET dates == generate_year_dates(y)
    IN  ScanRange(1, Len(dates), dates, off_days, wd, t)

(***************************************************************************)
(* The run of main(): compute_off_days, the scan, the attendance impact    *)
(***************************************************************************)
None == <<>>

\* dates a holiday file may hold: around both ends of the year, Christmas
\* and two days after it
HolidayPool(y) ==
    { Date(y, 1, 1) - 2, Date(y, 1, 1) - 1, Date(y, 12, 25), Date(y, 12, 27),
      Date(y, 12, 31) + 1 }

HolidaySets(y) == {h \in SUBSET HolidayPool(y) : Cardinality(h) <= MaxHolidays}

Init ==
    /\ year \in Years
    /\ working_days \in WorkingDaySets
    /\ threshold \in Thresholds
    /\ include_sundays \in BOOLEAN
    /\ \E h \in HolidaySets(year) :
           heap = [holidays |-> h, off_days |-> {}, new_off |-> {}]
    /\ off_ref = "holidays"
    /\ new_ref = "new_off"
    /\ i = 0
    /\ cand = None
    /\ block = None
    /\ suggestions = <<>>
    /\ total_working_days = 0
    /\ pc = "start"

\* main, line 262: off_days = compute_off_days(...)
ComputeOffDays ==
    /\ pc = "start"
    /\ LET ref == SetCopy("holidays", "off_days")
       IN  /\ heap' = [heap EXCEPT ![ref] =
                          compute_off_days(year, heap["holidays"], working_days,
                                           include_sundays)]
           /\ off_ref' = ref
    /\ i' = 1
    /\ pc' = "scan"
    /\ UNCHANGED <<year, working_days, threshold, include_sundays, new_ref, cand,
                   block, suggestions, total_working_days>>

\* one iteration of the loop of find_leave_suggestions, lines 220-235
ScanStep ==
    /\ pc = "scan"
    /\ i <= YearLen(year)
    /\ LET d == YearDate(year, i)
           off == heap[off_ref]
       IN  IF IsCandidate(d, off, working_days) /\ TouchesOffDay(d, off)
           THEN LET ref == SetCopy(off_ref, "new_off")
                    contents == off \cup {d}
                    b == get_continuous_block(d, contents)
                IN  /\ heap' = [heap EXCEPT ![ref] = contents]
                    /\ new_ref' = ref
                    /\ cand' = d
                    /\ block' = b
                    /\ suggestions' = IF Qualifies(b[3], threshold)
                                      THEN Append(suggestions, Record(d, b))
                                      ELSE suggestions
           ELSE UNCHANGED <<heap, new_ref, cand, block, suggestions>>
    /\ i' = i + 1
    /\ UNCHANGED <<year, working_days, threshold, include_sundays, off_ref,
                   total_working_days, pc>>

\* line 236: return suggestions
ScanReturn ==
    /\ pc = "scan"
    /\ i > YearLen(year)
    /\ pc' = "returned"
    /\ UNCHANGED <<year, working_days, threshold, include_sundays, heap, off_ref,
                   new_ref, i, cand, block, suggestions, total_working_days>>

\* main, lines 269-271: total_working_days and (1 / total_working_days) * 100
ComputeImpact ==
    /\ pc = "returned"
    /\ LET total == Cardinality({d \in SeqRange(generate_year_dates(year)) :
                                    weekday(d) \in working_days})
       IN  /\ total_working_days' = total
           /\ pc' = IF total = 0 THEN "ZeroDivisionError" ELSE "done"
    /\ UNCHANGED <<year, working_days, threshold, include_sundays, heap, off_ref,
                   new_ref, i, cand, block, suggestions>>

Next == ComputeOffDays \/ ScanStep \/ ScanReturn \/ ComputeImpact

Spec == Init /\ [][Next]_vars

(***************************************************************************)
(* A direct call of get_continuous_block(a, O), O a set of dates of a      *)
(* window of BlockWindow days and a one of its members                     *)
(***************************************************************************)
Window == Date(2023, 1, 1)..(Date(2023, 1, 1) + BlockWindow - 1)

BlockInit ==
    /\ year = 2023
    /\ working_days = 0..4
    /\ threshold = 0
    /\ include_sundays = FALSE
    /\ \E O \in SUBSET Window :
           /\ heap = [holidays |-> {}, off_days |-> {}, new_off |-> O]
           /\ cand \in O
    /\ off_ref = "off_days"
    /\ new_ref = "new_off"
    /\ i = 0
    /\ block = None
    /\ suggestions = <<>>
    /\ total_working_days = 0
    /\ pc = "block_call"

CallBlock ==
    /\ pc = "block_call"
    /\ block' = get_continuous_block(cand, heap[new_ref])
    /\ pc' = "block_ret"
    /\ UNCHANGED <<year, working_days, threshold, include_sundays, heap, off_ref,
                   new_ref, i, cand, suggestions, total_working_days>>

BlockNext == CallBlock

BlockSpec == BlockInit /\ [][BlockNext]_vars

(***************************************************************************)
(* Properties                                                              *)
(***************************************************************************)
\* the caller's holiday set and the off-day set the scan was given
Holidays == heap["holidays"]
OffDays == heap[off_ref]

InYear(d, y) == Date(y, 1, 1) <= d /\ d <= Date(y, 12, 31)

\* s is t with some elements left out, the others in the same order: s is what
\* is left of t when only the elements that occur in s are kept (for a t
\* without repetitions this is exactly being a subsequence; with repetitions
\* it is stronger)
IsSubseq(s, t) ==
    LET kept(r) == r \in SeqRange(s)
    IN  s = SelectSeq(t, kept)

\* C1: for an anchor a in O, get_continuous_block(a, O) returns start <= a <= end,
\* every date of [start, end] in O, start-1 and end+1 outside O, and
\* length = (end - start) + 1.
C1_BlockIsMaximalRun ==
    pc = "block_ret" =>
        LET O == heap[new_ref]
            start == block[1]
            end == block[2]
        IN  /\ cand \in O
            /\ start <= cand /\ cand <= end
            /\ \A x \in start..end : x \in O
            /\ start - 1 \notin O
            /\ end + 1 \notin O
            /\ block[3] = (end - start) + 1

\* the anchor lies strictly inside a run that O continues after a gap
C1_Witness ==
    /\ pc = "block_ret"
    /\ block[1] < cand /\ cand < block[2]
    /\ \E x \in heap[new_ref] : x > block[2] + 1

\* C2: every returned record's leave_day is a date of the target year, is not
\* in the off-day set given to the scan, and falls on a working weekday;
\* for every threshold, those <= 0 included.
C2_LeaveDayIsWorkingDay ==
    pc = "returned" =>
        \A k \in 1..Len(suggestions) :
            LET d == suggestions[k].leave_day
            IN  /\ InYear(d, year)
                /\ d \notin OffDays
                /\ weekday(d) \in working_days

C2_Witness ==
    /\ pc = "returned"
    /\ threshold <= 0
    /\ Len(suggestions) > 1
    /\ Holidays # {}

\* C3: for thresholds t1 <= t2 the result at t2 is a subsequence of the result
\* at t1: same records, same order, none added.
C3_ThresholdMonotone ==
    pc = "returned" =>
        \A t1 \in Thresholds :
            t1 <= threshold =>
                IsSubseq(suggestions,
                         find_leave_suggestions(year, OffDays, working_days, t1))

\* raising the threshold from 2 to 3 removed some suggestions and kept others
C3_Witness ==
    /\ pc = "returned"
    /\ threshold = 3
    /\ suggestions # <<>>
    /\ Len(find_leave_suggestions(year, OffDays, working_days, 2)) > Len(suggestions)

\* the scenario of a six-day week with no holidays
SixDayWeek == working_days = 0..5 /\ Holidays = {}

SundaysOf(y) == {d \in SeqRange(generate_year_dates(y)) : weekday(d) = 6}

\* C4 as stated: six-day week, no holidays: the off days are only Sundays, no
\* candidate passes the neighbour check (get_continuous_block is never
\* called), and the result is empty for every threshold.
C4_SixDayWeekNeverSuggests ==
    (SixDayWeek /\ pc # "start") =>
        /\ OffDays = SundaysOf(year)
        /\ block = None
        /\ suggestions = <<>>

\* C4 amended: six-day week, no holidays: the off days are exactly the Sundays
\* of the year; a candidate that passes the neighbour check is the Saturday
\* before or the Monday after one of them and its block has length 2; the
\* result is empty for every threshold >= 3 and non-empty for every
\* threshold <= 2.
C4_SixDayWeekBlocksOfTwo ==
    (SixDayWeek /\ pc # "start") =>
        /\ OffDays = SundaysOf(year)
        /\ block # None =>
               /\ weekday(cand) \in {5, 0}
               /\ block[3] = 2
        /\ threshold >= 3 => suggestions = <<>>
        /\ (pc = "returned" /\ threshold <= 2) => suggestions # <<>>

C4_Witness ==
    /\ SixDayWeek
    /\ pc = "returned"
    /\ threshold = 2
    /\ block # None
    /\ Len(suggestions) > 50

\* C5: with an empty working-day set the scan returns no suggestion and the
\* run (off-day set, scan, total working days, 100 / total) ends without an
\* error.
C5_EmptyWorkingSetRunsClean ==
    working_days = {} =>
        /\ suggestions = <<>>
        /\ pc # "ZeroDivisionError"

\* C6: every returned record is the maximal run of OffDays \cup {leave_day}
\* around leave_day: start <= leave_day <= end, every other date of
\* [start, end] is in OffDays, start-1 and end+1 are not, length is
\* (end - start) + 1 and is at least the threshold.
C6_RecordIsMaximalRun ==
    pc = "returned" =>
        \A k \in 1..Len(suggestions) :
            LET r == suggestions[k]
            IN  /\ r.block_start <= r.leave_day /\ r.leave_day <= r.block_end
                /\ \A x \in r.block_start..r.block_end :
                       x # r.leave_day => x \in OffDays
                /\ r.block_start - 1 \notin OffDays
                /\ r.block_end + 1 \notin OffDays
                /\ r.block_length = (r.block_end - r.block_start) + 1
                /\ r.block_length >= threshold

\* a record whose leave day bridges off days on both of its sides
C6_Witness ==
    /\ pc = "returned"
    /\ threshold = MaxThreshold
    /\ \E k \in 1..Len(suggestions) :
           /\ suggestions[k].block_start < suggestions[k].leave_day
           /\ suggestions[k].leave_day < suggestions[k].block_end

Christmas2023 ==
    /\ year = 2023
    /\ working_days = 0..4
    /\ Holidays = {Date(2023, 12, 25)}
    /\ threshold = 4

\* C7: year 2023, Monday-to-Friday week, holiday 2023-12-25, threshold 4: the
\* result holds a record with leave_day 2023-12-26 whose block includes
\* 2023-12-23, 2023-12-24 and 2023-12-25 and has length >= 4.
C7_ChristmasBridge ==
    (Christmas2023 /\ pc = "returned") =>
        \E k \in 1..Len(suggestions) :
            LET r == suggestions[k]
            IN  /\ r.leave_day = Date(2023, 12, 26)
                /\ Date(2023, 12, 23)..Date(2023, 12, 25)
                       \subseteq r.block_start..r.block_end
                /\ r.block_length >= 4

C7_Witness == Christmas2023 /\ pc = "returned" /\ suggestions # <<>>

\* C8: no step changes the contents of the caller's holiday set, and no step
\* of the scan (nor any step after it) changes the contents of the off-day
\* set the scan was given: candidates are added to a copy only.
C8_CallerSetsUnchanged ==
    [][ /\ heap'["holidays"] = heap["holidays"]
        /\ pc # "start" => (off_ref' = off_ref /\ heap'[off_ref] = heap[off_ref])
      ]_vars

\* a candidate was added to new_off, and compute_off_days added days
C8_Witness ==
    /\ pc = "scan"
    /\ block # None
    /\ cand \in heap[new_ref]
    /\ cand \notin OffDays
    /\ Holidays # {}
    /\ OffDays # Holidays

HolidaysOfYear == {h \in Holidays : InYear(h, year)}

ResultForHolidays(h) ==
    find_leave_suggestions(
        year, compute_off_days(year, h, working_days, include_sundays),
        working_days, threshold)

\* C9 as stated: the result is the one obtained with the holidays restricted
\* to the dates of the target year.
C9_OutOfYearHolidaysBenign ==
    pc = "returned" => suggestions = ResultForHolidays(HolidaysOfYear)

NoHolidayNextToYear ==
    /\ Date(year, 1, 1) - 1 \notin Holidays
    /\ Date(year, 12, 31) + 1 \notin Holidays

\* C9 amended: when the holidays hold neither the day before January 1 nor
\* the day after December 31 of the target year, the result is the one
\* obtained with the holidays restricted to the dates of the target year.
C9_FarOutOfYearHolidaysBenign ==
    (pc = "returned" /\ NoHolidayNextToYear) =>
        suggestions = ResultForHolidays(HolidaysOfYear)

\* an out-of-year holiday two days before a January 1 that is itself off
C9_Witness ==
    /\ pc = "returned"
    /\ NoHolidayNextToYear
    /\ Date(year, 1, 1) - 2 \in Holidays
    /\ Date(year, 1, 1) \in OffDays
    /\ \E k \in 1..Len(suggestions) : suggestions[k].leave_day = Date(year, 1, 1) + 1

\* the loop body without the neighbour check of line 224
SuggestUnpruned(d, off_days, wd, t) ==
    IF IsCandidate(d, off_days, wd)
    THEN LET b == get_continuous_block(d, off_days \cup {d})
         IN  IF Qualifies(b[3], t) THEN <<Record(d, b)>> ELSE <<>>
    ELSE <<>>

RECURSIVE ScanRangeUnpruned(_, _, _, _, _, _)
ScanRangeUnpruned(lo, hi, dates, off_days, wd, t) ==
    IF lo > hi THEN <<>>
    ELSE IF lo = hi THEN SuggestUnpruned(dates[lo], off_days, wd, t)
    ELSE LET mid == (lo + hi) \div 2
         IN  ScanRangeUnpruned(lo, mid, dates, off_days, wd, t)
                 \o ScanRangeUnpruned(mid + 1, hi, dates, off_days, wd, t)

UnprunedResult ==
    LET dates == generate_year_dates(year)
    IN  ScanRangeUnpruned(1, Len(dates), dates, OffDays, working_days, threshold)

\* C10 as stated: for every threshold >= 0 the result is the one of the scan
\* without the neighbour check.
C10_PruningLosesNothing ==
    (pc = "returned" /\ threshold >= 0) => suggestions = UnprunedResult

\* C10 amended: for every threshold >= 2 the result is the one of the scan
\* without the neighbour check (a candidate with no off neighbour gives a
\* block of length 1, which thresholds 0 and 1 accept).
C10_PruningLosesNothingFromTwo ==
    (pc = "returned" /\ threshold >= 2) => suggestions = UnprunedResult

\* the check pruned a candidate and others were suggested
C10_Witness ==
    /\ pc = "returned"
    /\ threshold >= 2
    /\ suggestions # <<>>
    /\ \E d \in SeqRange(generate_year_dates(year)) :
           IsCandidate(d, OffDays, working_days) /\ ~TouchesOffDay(d, OffDays)

====
